---- MODULE Spec2Model ----
(***************************************************************************)
(* A model of blade's target core (src/blade/target.py): target identity   *)
(* and normalization, pattern matching, dependency key resolution, the     *)
(* process-wide source-ownership map, the rule-hash engine and the         *)
(* memoized build-statement emission.                                      *)
(*                                                                         *)
(* Python strings are modelled as sequences of one-character strings, so   *)
(* that slicing, splitting, joining and os.path.normpath are computed the  *)
(* way the code computes them.                                             *)
(***************************************************************************)
EXTENDS Integers, Sequences, FiniteSets, TLC

\* ------------------------------------------------------------------ bounds
\* Longest raw command-line target string fed to normalize().
MaxLen == 7
\* Deepest directory (number of components) of the keys fed to match().
MaxDepth == 2

\* ----------------------------------------------------------- str helpers
\* s.startswith(p)
StartsWith(s, p) == Len(s) >= Len(p) /\ SubSeq(s, 1, Len(p)) = p

\* s.endswith(p)
EndsWith(s, p) == Len(s) >= Len(p) /\ SubSeq(s, Len(s) - Len(p) + 1, Len(s)) = p

\* c in s, for a one-character c
HasChar(s, c) == \E i \in 1..Len(s) : s[i] = c

\* p in s, for a substring p
HasSub(s, p) == \E i \in 1..(Len(s) - Len(p) + 1) : SubSeq(s, i, i + Len(p) - 1) = p

\* s.count(c), for a one-character c
Count(s, c) == Cardinality({i \in 1..Len(s) : s[i] = c})

\* s.split(c): the parts between the occurrences of c (always at least one part)
RECURSIVE Split(_, _)
Split(s, c) ==
    IF ~HasChar(s, c) THEN <<s>>
    ELSE LET i == CHOOSE k \in 1..Len(s) : s[k] = c /\ \A j \in 1..(k - 1) : s[j] # c
         IN  <<SubSeq(s, 1, i - 1)>> \o Split(SubSeq(s, i + 1, Len(s)), c)

\* s.rsplit(c, 1) for an s that holds c: the text before and after the last c
RSplit1(s, c) ==
    LET i == CHOOSE k \in 1..Len(s) : s[k] = c /\ \A j \in (k + 1)..Len(s) : s[j] # c
    IN  <<SubSeq(s, 1, i - 1), SubSeq(s, i + 1, Len(s))>>

\* sep.join(parts)
RECURSIVE Join(_, _)
Join(parts, sep) ==
    IF parts = <<>> THEN <<>>
    ELSE IF Len(parts) = 1 THEN parts[1]
    ELSE parts[1] \o sep \o Join(Tail(parts), sep)

\* posixpath.join(a, b)
PathJoin(a, b) ==
    IF StartsWith(b, <<"/">>) THEN b
    ELSE IF a = <<>> \/ EndsWith(a, <<"/">>) THEN a \o b
    ELSE a \o <<"/">> \o b

\* The component loop of posixpath.normpath: drop '' and '.', fold 'x/..'.
RECURSIVE NormComps(_, _, _)
NormComps(comps, acc, initial_slashes) ==
    IF comps = <<>> THEN acc
    ELSE LET comp == Head(comps)
             rest == Tail(comps)
         IN  IF comp = <<>> \/ comp = <<".">> THEN NormComps(rest, acc, initial_slashes)
             ELSE IF \/ comp # <<".", ".">>
                     \/ (initial_slashes = 0 /\ acc = <<>>)
                     \/ (acc # <<>> /\ acc[Len(acc)] = <<".", ".">>)
                  THEN NormComps(rest, Append(acc, comp), initial_slashes)
             ELSE IF acc # <<>>
                  THEN NormComps(rest, SubSeq(acc, 1, Len(acc) - 1), initial_slashes)
             ELSE NormComps(rest, acc, initial_slashes)

\* posixpath.normpath(path)
Normpath(path) ==
    IF path = <<>> THEN <<".">>
    ELSE LET initial_slashes ==
                 IF ~StartsWith(path, <<"/">>) THEN 0
                 ELSE IF StartsWith(path, <<"/", "/">>) /\ ~StartsWith(path, <<"/", "/", "/">>)
                      THEN 2 ELSE 1
             body == Join(NormComps(Split(path, "/"), <<>>, initial_slashes), <<"/">>)
             out == [i \in 1..initial_slashes |-> "/"] \o body
         IN  IF out = <<>> THEN <<".">> ELSE out

\* ------------------------------------------- identity and normalization
\* _normalize_one(target, working_dir); console.error() logs and returns, so
\* a target starting from the root path is normalized as it stands.
NormalizeRelative(target, working_dir) ==
    IF working_dir # <<".">> THEN PathJoin(working_dir, target) ELSE target

\* _normalize_one with the '...' suffix tested before the ':' split.
_normalize_one_DotsFirst(target, working_dir) ==
    LET t == IF StartsWith(target, <<"/", "/">>) THEN SubSeq(target, 3, Len(target))
             ELSE IF StartsWith(target, <<"/">>) THEN target
             ELSE NormalizeRelative(target, working_dir)
        pn == IF EndsWith(t, <<".", ".", ".">>)
                  THEN <<SubSeq(t, 1, Len(t) - 3), <<".", ".", ".">>>>
              ELSE IF HasChar(t, ":") THEN RSplit1(t, ":")
              ELSE <<t, <<"*">>>>
    IN  Normpath(pn[1]) \o <<":">> \o pn[2]

_normalize_one(target, working_dir) ==
    LET t == IF StartsWith(target, <<"/", "/">>) THEN SubSeq(target, 3, Len(target))
             ELSE IF StartsWith(target, <<"/">>) THEN target
             ELSE NormalizeRelative(target, working_dir)
        pn == IF HasChar(t, ":") THEN RSplit1(t, ":")
              ELSE IF EndsWith(t, <<".", ".", ".">>)
                   THEN <<SubSeq(t, 1, Len(t) - 3), <<".", ".", ".">>>>
              ELSE <<t, <<"*">>>>
    IN  Normpath(pn[1]) \o <<":">> \o pn[2]

\* normalize(targets, working_dir)
normalize(targets, working_dir) ==
    [i \in 1..Len(targets) |-> _normalize_one(targets[i], working_dir)]

\* The '...' branch of match(): Python evaluates `a or b and c` as a or (b and c).
MatchRecursive(t_path, p_path) ==
    \/ t_path = p_path
    \/ /\ StartsWith(t_path, p_path)
       /\ t_path[Len(p_path) + 1] = "/"

\* match(target_id, pattern), for ids that hold exactly one ':' (the two
\* unpacking assignments raise ValueError otherwise).
match(target_id, pattern) ==
    LET t == Split(target_id, ":")
        p == Split(pattern, ":")
    IN  IF p[2] = <<".", ".", ".">> THEN MatchRecursive(t[1], p[1])
        ELSE IF p[2] = <<"*">> THEN t[1] = p[1]
        ELSE target_id = pattern

\* ------------------------------------------------------------ the state
VARIABLES
    objs,             \* every Target object built so far, in construction order
    target_database,  \* blade.get_target_database(): key -> index into objs
    registered,       \* the keys handed to blade.register_target(), in call order
    src_target_map,   \* Target.__src_target_map: full path -> <<fullname, allows>>
    console_log,      \* what console.error / console.warning printed, in order
    config,           \* the configuration and the tool revision of this process
    ret,              \* the operation that ran last and the value it returned
    pure_in,          \* the arguments of the pure function under check
    pure_out          \* its results so far

vars == <<objs, target_database, registered, src_target_map, console_log, config,
          ret, pure_in, pure_out>>

\* Python's None, and a value that is not None.
None == <<>>
Some(v) == <<v>>

\* dict helpers: a dict is a function on a finite set of keys.
EmptyDict == [k \in {} |-> 0]
Has(d, k) == k \in DOMAIN d
Put(d, k, v) == [x \in DOMAIN d \cup {k} |-> IF x = k THEN v ELSE d[x]]

\* One printed diagnostic: Target.error / Target.warning prefix the target's
\* name (_format_message); the message is kept as its kind and its arguments.
Diag(level, self, kind, args) ==
    [level |-> level, name |-> self.name, kind |-> kind, args |-> args]

\* x in seq
InSeq(x, seq) == \E i \in 1..Len(seq) : seq[i] = x

\* AppendNew without the membership test.
AppendNew_Always(seq, x) == Append(seq, x)

\* seq.append(x) unless x is already in seq
AppendNew(seq, x) == IF InSeq(x, seq) THEN seq ELSE Append(seq, x)

\* ------------------------------------------------- source ownership map
\* The names a source appears under more than once in srcs (the dups list).
RECURSIVE DupSrcs(_, _)
DupSrcs(srcs, seen) ==
    IF srcs = <<>> THEN <<>>
    ELSE IF Head(srcs) \in seen THEN <<Head(srcs)>> \o DupSrcs(Tail(srcs), seen)
    ELSE DupSrcs(Tail(srcs), seen \cup {Head(srcs)})

\* The test that rejects a source path: '..' in src or src.startswith('/').
InvalidSrc(src) == HasSub(src, <<".", ".">>) \/ StartsWith(src, <<"/">>)

\* ConflictDiag with the warning branch lost.
ConflictDiag_NoWarning(self, src, target_existed, action) ==
    IF action = "error"
        THEN <<Diag("error", self, "already_in_srcs", <<src, target_existed[1]>>)>>
    ELSE <<>>

\* The policy gate of a disallow/disallow conflict: what is printed.
ConflictDiag(self, src, target_existed, action) ==
    IF action = "error"
        THEN <<Diag("error", self, "already_in_srcs", <<src, target_existed[1]>>)>>
    ELSE IF action = "warning"
        THEN <<Diag("warning", self, "already_in_srcs", <<src, target_existed[1]>>)>>
    ELSE <<>>

\* ClaimOwner as a plain overwrite: the last claimant owns the source.
ClaimOwner_LastWins(map, full_src, target) == target

\* ClaimOwner with the displaceable test on the wrong side: a claimant that
\* disallows duplicates takes the source from whoever holds it.
ClaimOwner_DisallowTakes(map, full_src, target) ==
    IF ~Has(map, full_src) THEN target
    ELSE LET target_existed == map[full_src]
         IN  IF target_existed # target /\ (target_existed[2] \/ ~target[2]) THEN target
             ELSE target_existed

\* The owner recorded for full_src after `target` claims it.
ClaimOwner(map, full_src, target) ==
    IF ~Has(map, full_src) THEN target
    ELSE LET target_existed == map[full_src]
         IN  IF target_existed # target /\ target_existed[2] THEN target
             ELSE target_existed

\* One iteration of the ownership loop of _check_srcs, on [map, log].
CheckOneSrc(self, src, st, action) ==
    LET invalid == IF InvalidSrc(src)
                   THEN <<Diag("error", self, "invalid_src", <<src>>)>> ELSE <<>>
        full_src == Normpath(PathJoin(self.path, src))
        target == <<self.fullname, self.allow_duplicate_source>>
        conflict == IF /\ Has(st.map, full_src)
                       /\ st.map[full_src] # target
                       /\ ~st.map[full_src][2]
                       /\ ~target[2]
                    THEN ConflictDiag(self, src, st.map[full_src], action) ELSE <<>>
    IN  [map |-> Put(st.map, full_src, ClaimOwner(st.map, full_src, target)),
         log |-> st.log \o invalid \o conflict]

RECURSIVE CheckSrcsLoop(_, _, _, _)
CheckSrcsLoop(self, srcs, st, action) ==
    IF srcs = <<>> THEN st
    ELSE CheckSrcsLoop(self, Tail(srcs), CheckOneSrc(self, Head(srcs), st, action), action)

\* Target._check_srcs, on [map, log]: Target.error() prints and returns, so
\* the loop goes on after every diagnostic.
_check_srcs(self, st, action) ==
    LET dups == DupSrcs(self.srcs, {})
        st1 == IF dups # <<>>
               THEN [st EXCEPT !.log = Append(@, Diag("error", self, "dup_paths", dups))]
               ELSE st
    IN  CheckSrcsLoop(self, self.srcs, st1, action)

\* ------------------------------------------------ dependency resolution
\* The text 'PUBLIC'.
PUBLIC == <<"P", "U", "B", "L", "I", "C">>

\* Whether _unify_dep(dep) raises: a '//' or relative form without ':', or
\* a relative form with '..' in its path.
UnifyRaises(dep) ==
    IF dep[1] = ":" THEN FALSE
    ELSE IF StartsWith(dep, <<"/", "/">>) THEN ~HasChar(dep, ":")
    ELSE IF StartsWith(dep, <<"#">>) THEN FALSE
    ELSE \/ ~HasChar(dep, ":")
         \/ HasSub(RSplit1(dep, ":")[1], <<".", ".">>)

\* The key _unify_dep(dep) returns for a dep it does not raise on.
_unify_dep(self, dep) ==
    LET dkey ==
            IF dep[1] = ":"
                THEN <<Normpath(self.path), SubSeq(dep, 2, Len(dep))>>
            ELSE IF StartsWith(dep, <<"/", "/">>)
                THEN LET pl == RSplit1(SubSeq(dep, 3, Len(dep)), ":")
                     IN  <<Normpath(pl[1]), pl[2]>>
            ELSE IF StartsWith(dep, <<"#">>)
                THEN <<<<"#">>, SubSeq(dep, 2, Len(dep))>>
            ELSE LET pl == RSplit1(dep, ":")
                 IN  <<Normpath(self.path \o <<"/">> \o pl[1]), pl[2]>>
    IN  dkey[1] \o <<":">> \o dkey[2]

\* The fields Target.__init__ sets before its checks run; the kind gives
\* its answer to _allow_duplicate_source() and the attributes it declares.
NewTarget(name, type, path, srcs, allow, attr) ==
    [name |-> name, path |-> path,
     key |-> path \o <<":">> \o name,
     fullname |-> <<"/", "/">> \o path \o <<":">> \o name,
     type |-> type, srcs |-> srcs, deps |-> <<>>, expanded_deps |-> <<>>,
     visibility |-> [public |-> TRUE, keys |-> <<>>],
     allow_duplicate_source |-> allow,
     targets |-> EmptyDict, default_target |-> <<>>, clean_list |-> <<>>,
     attr |-> attr, data |-> EmptyDict,
     build_rules |-> None, rule_hash |-> None,
     ninja_rules_runs |-> 0, first_rules |-> None]

\* SystemLibrary.__init__(name): a Target with no srcs, deps or kwargs,
\* whose path, key and fullname are then overwritten.
SystemLibrary(name, test_timeout) ==
    LET n == SubSeq(name, 2, Len(name))
        t == NewTarget(n, "system_library", <<"#">>, <<>>, FALSE,
                       Put(EmptyDict, "test_timeout", test_timeout))
    IN  [t EXCEPT !.key = <<"#", ":">> \o n,
                  !.fullname = <<"/", "/", "#", ":">> \o n]

\* blade.register_target(target): the registry collaborator files the
\* object under its key.
register_target(w, target) ==
    [w EXCEPT !.objs = Append(@, target),
              !.db = Put(@, target.key, Len(w.objs) + 1),
              !.registered = Append(@, target.key)]

\* Target._check_name, on the log.
_check_name(self, log) ==
    IF HasChar(self.name, "/")
    THEN Append(log, Diag("error", self, "invalid_name", <<>>)) ELSE log

\* _add_system_library without the `key not in` test.
_add_system_library_Always(w, key, name) ==
    LET lib == SystemLibrary(name, w.test_timeout)
    IN  register_target([w EXCEPT !.log = _check_name(lib, @)], lib)

\* Target._add_system_library(key, name), on the world w.
_add_system_library(w, key, name) ==
    IF ~Has(w.db, key)
    THEN LET lib == SystemLibrary(name, w.test_timeout)
         IN  register_target([w EXCEPT !.log = _check_name(lib, @)], lib)
    ELSE w

\* The registry side effect of _unify_dep(dep): the '#' branch.
UnifyEffect(w, self, dep) ==
    IF dep[1] # ":" /\ ~StartsWith(dep, <<"/", "/">>) /\ StartsWith(dep, <<"#">>)
    THEN _add_system_library(w, _unify_dep(self, dep), dep)
    ELSE w

\* Target._check_format(t), on the log.
_check_format(self, t, log) ==
    LET l1 == IF ~(\/ StartsWith(t, <<":">>) \/ StartsWith(t, <<"#">>)
                   \/ StartsWith(t, <<"/", "/">>) \/ StartsWith(t, <<".", "/">>))
              THEN Append(log, Diag("error", self, "invalid_format", <<t>>)) ELSE log
    IN  IF Count(t, ":") > 1
        THEN Append(l1, Diag("error", self, "missing_comma", <<t>>)) ELSE l1

\* Target._check_deps(deps), on the log.
RECURSIVE _check_deps(_, _, _)
_check_deps(self, deps, log) ==
    IF deps = <<>> THEN log
    ELSE _check_deps(self, Tail(deps), _check_format(self, Head(deps), log))

\* One iteration of _init_target_deps, on cs = [self, w].
InitOneDep(cs, d) ==
    LET dkey == _unify_dep(cs.self, d)
    IN  [self |-> [cs.self EXCEPT !.expanded_deps = AppendNew(@, dkey),
                                  !.deps = AppendNew(@, dkey)],
         w |-> UnifyEffect(cs.w, cs.self, d)]

\* Target._init_target_deps(deps), on cs = [self, w].
RECURSIVE _init_target_deps(_, _)
_init_target_deps(cs, deps) ==
    IF deps = <<>> THEN cs
    ELSE _init_target_deps(InitOneDep(cs, Head(deps)), Tail(deps))

\* The loop of _init_visibility, on cs = [self, w].
RECURSIVE VisibilityLoop(_, _)
VisibilityLoop(cs, vis) ==
    IF vis = <<>> THEN cs
    ELSE LET v == Head(vis)
             key == _unify_dep(cs.self, v)
             w1 == [cs.w EXCEPT !.log = _check_format(cs.self, v, @)]
         IN  VisibilityLoop(
                 [self |-> [cs.self EXCEPT !.visibility.keys = AppendNew(@, key)],
                  w |-> UnifyEffect(w1, cs.self, v)],
                 Tail(vis))

\* Target._init_visibility(visibility): None (here <<>>) and ['PUBLIC'] leave
\* the target public; anything else becomes the list of the unified keys.
_init_visibility(cs, visibility) ==
    IF visibility = None \/ visibility[1] = <<PUBLIC>> THEN cs
    ELSE VisibilityLoop(
             [cs EXCEPT !.self.visibility = [public |-> FALSE, keys |-> <<>>]],
             visibility[1])

\* Target.__init__ after the fields are set: the checks and the dependency
\* and visibility initialization, in the constructor's order.
InitTarget(w, self, deps, visibility) ==
    LET log1 == _check_name(self, w.log)
        st == _check_srcs(self, [map |-> w.map, log |-> log1], w.action)
        log2 == _check_deps(self, deps, st.log)
        cs1 == _init_target_deps(
                   [self |-> self, w |-> [w EXCEPT !.map = st.map, !.log = log2]], deps)
    IN  _init_visibility(cs1, visibility)

\* --------------------------------------------------- the world and steps
\* The mutable state an operation works on, gathered into one record.
World ==
    [objs |-> objs, db |-> target_database, registered |-> registered,
     map |-> src_target_map, log |-> console_log,
     action |-> config.duplicated_source_action,
     test_timeout |-> config.test_timeout]

\* The state after an operation left the world as w and returned r.
Commit(w, r) ==
    /\ objs' = w.objs
    /\ target_database' = w.db
    /\ registered' = w.registered
    /\ src_target_map' = w.map
    /\ console_log' = w.log
    /\ ret' = r
    /\ UNCHANGED <<config, pure_in, pure_out>>

\* What an operation reports: its name, the object it ran on, the value it
\* returned and the length of the console log when it started.
Ret(op, obj, value) == [op |-> op, obj |-> obj, value |-> value, mark |-> Len(console_log)]

\* Most targets the BUILD files of one run declare.
MaxTargets == 2

\* The number of targets declared so far (system libraries are not declared).
Declared == Cardinality({i \in 1..Len(objs) : objs[i].type # "system_library"})

\* A build rule function declares one target: Target.__init__ runs and the
\* new object is registered. A dep the constructor raises on, or a key the
\* registry already holds, ends the evaluation instead.
Construct(path, name, type, srcs, deps, visibility, allow, attr) ==
    LET self == NewTarget(name, type, path, srcs, allow,
                          Put(attr, "test_timeout", config.test_timeout))
    IN  /\ ~Has(target_database, self.key)
        /\ \A i \in 1..Len(deps) : ~UnifyRaises(deps[i])
        /\ visibility # None => \A i \in 1..Len(visibility[1]) :
               visibility[1][i] = PUBLIC \/ ~UnifyRaises(visibility[1][i])
        /\ \E cs \in {InitTarget(World, self, deps, visibility)} :
           \E w \in {register_target(cs.w, cs.self)} :
               Commit(w, Ret("construct", Len(w.objs), <<>>))

\* ------------------------------------------------------- the input sets
Dir_a == <<"a">>
Dir_ab == <<"a", "/", "b">>
Paths == {Dir_a, Dir_ab}
Names == {<<"t">>, <<"u">>}

\* Declared srcs lists: plain, './'-prefixed, in a subdirectory, both
\* spellings of one file, and one that climbs out of the directory.
SrcLists ==
    { << <<"x">> >>, << <<".", "/", "x">> >>, << <<"x">>, <<".", "/", "x">> >>,
      << <<"b", "/", "x">> >>, << <<".", ".", "/", "x">> >> }

\* Values of global_config.duplicated_source_action.
Policies == {"ignore", "warn", "warning", "error"}

InitConfig ==
    config \in [duplicated_source_action : Policies, test_timeout : {300},
                digest : {"cfg1"}, revision : {"rev1"}]

InitEmpty ==
    /\ objs = <<>>
    /\ target_database = EmptyDict
    /\ registered = <<>>
    /\ src_target_map = EmptyDict
    /\ console_log = <<>>
    /\ ret = Ret("none", 0, <<>>)
    /\ pure_in = <<>>
    /\ pure_out = <<>>

\* The evaluation of BUILD files that declare library targets with srcs.
Init == InitConfig /\ InitEmpty

Declare ==
    \E path \in Paths, name \in Names, srcs \in SrcLists, allow \in BOOLEAN :
        Declared < MaxTargets /\ Construct(path, name, "library", srcs, <<>>, None, allow, EmptyDict)

Next == Declare

Spec == Init /\ [][Next]_vars

\* ---------------------------------------------- source ownership claims
\* The map entry a target stands for: (fullname, allows duplicates).
OwnerOf(t) == <<t.fullname, t.allow_duplicate_source>>

\* The entries of t.srcs that resolve to the full path p.
EntriesFor(t, p) == {k \in 1..Len(t.srcs) : Normpath(PathJoin(t.path, t.srcs[k])) = p}

\* The object the last step constructed, when it was a construction.
Constructed == ret.op = "construct"

\* C1: in the source-ownership map, an entry whose owner disallows duplicate
\* sources is never replaced by a different target that allows them, and an
\* entry whose owner allows them is replaced by the next different target
\* that claims the same normalized path. No entry is ever dropped.
C1_OwnershipSteps ==
    [][\A p \in DOMAIN src_target_map :
         LET old == src_target_map[p]
             new == src_target_map'[p]
             claimant == objs'[ret'.obj]
         IN  /\ p \in DOMAIN src_target_map'
             /\ ~old[2] => ~(new # old /\ new[2])
             /\ (/\ old[2]
                 /\ ret'.op = "construct"
                 /\ EntriesFor(claimant, p) # {}
                 /\ OwnerOf(claimant) # old) => new = OwnerOf(claimant)]_vars

\* C1's case: a source first claimed by a target that allows duplicates is
\* now owned by the different target declared after it.
C1_Witness ==
    \E p \in DOMAIN src_target_map :
        /\ Len(objs) = 2
        /\ EntriesFor(objs[1], p) # {} /\ EntriesFor(objs[2], p) # {}
        /\ objs[1].allow_duplicate_source
        /\ src_target_map[p] = OwnerOf(objs[2])

\* The targets that claim p, by construction order.
Claimants(p) == {i \in 1..Len(objs) : EntriesFor(objs[i], p) # {}}

\* C2: when the targets that claim one normalized source path all disallow
\* duplicate sources, the first of them to be registered is the recorded
\* owner, whatever the duplicate-source policy is.
C2_FirstDisallowingOwnerStays ==
    \A p \in DOMAIN src_target_map :
        (\A i \in Claimants(p) : ~objs[i].allow_duplicate_source)
            => \E i \in Claimants(p) :
                   /\ \A j \in Claimants(p) : i <= j
                   /\ src_target_map[p] = OwnerOf(objs[i])

\* C2's case: two targets that disallow duplicates claim one path under the
\* policy error, and the first owns it.
C2_Witness ==
    \E p \in DOMAIN src_target_map :
        /\ config.duplicated_source_action = "error"
        /\ Claimants(p) = {1, 2}
        /\ ~objs[1].allow_duplicate_source /\ ~objs[2].allow_duplicate_source
        /\ src_target_map[p] = OwnerOf(objs[1])

\* The warnings the last construction printed about the full path p, each
\* naming a declared source path and the prior owner's display name.
ConflictWarnings(p) ==
    {n \in (ret.mark + 1)..Len(console_log) :
        /\ console_log[n].level = "warning"
        /\ console_log[n].kind = "already_in_srcs"
        /\ console_log[n].name = objs[ret.obj].name
        /\ Normpath(PathJoin(objs[ret.obj].path, console_log[n].args[1])) = p
        /\ console_log[n].args[2] = src_target_map[p][1]}

\* The paths the last constructed target declares while a different target
\* that disallows duplicates owns them, the new target disallowing too.
Conflicts ==
    {p \in DOMAIN src_target_map :
        /\ Constructed
        /\ EntriesFor(objs[ret.obj], p) # {}
        /\ ~objs[ret.obj].allow_duplicate_source
        /\ ~src_target_map[p][2]
        /\ src_target_map[p] # OwnerOf(objs[ret.obj])}

InitIdle ==
    /\ config = [duplicated_source_action |-> "warning", test_timeout |-> 300,
                 digest |-> "cfg1", revision |-> "rev1"]
    /\ objs = <<>>
    /\ target_database = EmptyDict
    /\ registered = <<>>
    /\ src_target_map = EmptyDict
    /\ console_log = <<>>
    /\ ret = [op |-> "none", obj |-> 0, value |-> <<>>, mark |-> 0]

Idle == UNCHANGED <<objs, target_database, registered, src_target_map, console_log,
                    config, ret>>

\* Directory names, and the canonical directories of at most n components.
Components == {<<"a">>, <<"a", "b">>, <<"b">>}

RECURSIVE DirsOfDepth(_)
DirsOfDepth(n) ==
    IF n = 0 THEN {<<".">>}
    ELSE Components
         \cup {d \o <<"/">> \o c : d \in DirsOfDepth(n - 1) \ {<<".">>}, c \in Components}
         \cup {<<".">>}

Dots == <<".", ".", ".">>
Star == <<"*">>
MatchKeys == {d \o <<":">> \o n : d \in DirsOfDepth(MaxDepth), n \in {<<"t">>, <<"u">>}}
MatchPatterns == {d \o <<":">> \o n : d \in DirsOfDepth(MaxDepth), n \in {Dots, Star, <<"t">>}}

InitMatch ==
    /\ InitIdle
    /\ pure_in \in MatchKeys \X MatchPatterns
    /\ pure_out = <<>>

\* A caller evaluates match(target_id, pattern).
CallMatch ==
    /\ pure_out = <<>>
    /\ pure_out' = <<match(pure_in[1], pure_in[2])>>
    /\ UNCHANGED pure_in
    /\ Idle

NextMatch == CallMatch

SpecMatch == InitMatch /\ [][NextMatch]_vars

\* The components of a canonical directory; the root '.' has none.
DirComps(d) == IF d = <<".">> THEN <<>> ELSE Split(d, "/")

\* Directory d is p or lies beneath p in the tree.
Beneath(d, p) ==
    LET dc == DirComps(d)
        pc == DirComps(p)
    IN  Len(pc) <= Len(dc) /\ SubSeq(dc, 1, Len(pc)) = pc

\* C9: match(key, 'P:...') is true exactly when the key's directory is P or
\* a directory beneath P, for every P, the root '.' included (and so false
\* for a directory that has P only as an unseparated string prefix);
\* match(key, 'P:*') is true exactly when the key's directory equals P.
C9_MatchIsTreeContainment ==
    pure_out # <<>> =>
        LET t_path == Split(pure_in[1], ":")[1]
            p == Split(pure_in[2], ":")
        IN  /\ p[2] = Dots => (pure_out[1] <=> Beneath(t_path, p[1]))
            /\ p[2] = Star => (pure_out[1] <=> t_path = p[1])

\* ---------------------------------------------------------- normalization
Alphabet == {"a", "/", ".", ":"}

RECURSIVE StringsUpTo(_)
StringsUpTo(n) ==
    IF n = 0 THEN {<<>>}
    ELSE LET shorter == StringsUpTo(n - 1)
         IN  shorter \cup {Append(x, c) : x \in {y \in shorter : Len(y) = n - 1}, c \in Alphabet}

WorkingDirs == {<<".">>, <<"a">>}

InitNormalize ==
    /\ InitIdle
    /\ pure_in \in StringsUpTo(MaxLen) \X WorkingDirs
    /\ pure_out = <<>>

\* A caller normalizes the one-element list [x].
CallNormalize ==
    /\ pure_out = <<>>
    /\ pure_out' = <<normalize(<<pure_in[1]>>, pure_in[2])>>
    /\ UNCHANGED pure_in
    /\ Idle

\* The caller normalizes the list it got back.
CallNormalizeAgain ==
    /\ Len(pure_out) = 1
    /\ pure_out' = Append(pure_out, normalize(pure_out[1], pure_in[2]))
    /\ UNCHANGED pure_in
    /\ Idle

NextNormalize == CallNormalize \/ CallNormalizeAgain

SpecNormalize == InitNormalize /\ [][NextNormalize]_vars

\* A valid target string: not one the code reports as starting from the
\* root path, before or after its '//' is taken off.
ValidTarget(x) ==
    IF x = <<>> THEN FALSE
    ELSE IF StartsWith(x, <<"/", "/">>) THEN ~StartsWith(x, <<"/", "/", "/">>)
    ELSE ~StartsWith(x, <<"/">>)

RECURSIVE strip(_)
strip(s) ==
    IF s = <<>> THEN s
    ELSE IF Head(s) = " " THEN strip(Tail(s))
    ELSE IF s[Len(s)] = " " THEN strip(SubSeq(s, 1, Len(s) - 1))
    ELSE s

\* Target._add_location_reference_target(m), on cs = [self, w]; m is the
\* pair of groups of one LOCATION_RE match, the second None when absent.
\* The result carries the (key, type) the method returns.
_add_location_reference_target(cs, m) ==
    LET type == strip(IF m[2] = None THEN <<>> ELSE m[2][1])
        key == _unify_dep(cs.self, m[1])
    IN  [self |-> [cs.self EXCEPT !.expanded_deps = AppendNew(@, key),
                                  !.deps = AppendNew(@, key)],
         w |-> UnifyEffect(cs.w, cs.self, m[1]),
         result |-> <<key, type>>]

\* A kind resolves every location reference of one attribute string, in
\* order; `matches` are the LOCATION_RE matches in the string. The result
\* lists, per match, the referred text and the (key, type) returned.
RECURSIVE ResolveLoop(_, _, _)
ResolveLoop(cs, matches, results) ==
    IF matches = <<>> THEN [self |-> cs.self, w |-> cs.w, results |-> results]
    ELSE LET r == _add_location_reference_target(cs, Head(matches))
         IN  ResolveLoop([self |-> r.self, w |-> r.w], Tail(matches),
                         Append(results, <<Head(matches)[1]>> \o r.result))

\* The world once object i has been replaced by its updated state.
Store(w, i, self) == [w EXCEPT !.objs[i] = self]

ResolveLocations(i, matches) ==
    /\ objs[i].type # "system_library"
    /\ \A k \in 1..Len(matches) : ~UnifyRaises(matches[k][1])
    /\ \E r \in {ResolveLoop([self |-> objs[i], w |-> World], matches, <<>>)} :
       \E w \in {Store(r.w, i, r.self)} :
           Commit(w, Ret("location", i, r.results))

\* One iteration of _add_hardcode_library, on cs = [self, w].
HardcodeOne(cs, dep0) ==
    LET dep == IF ~StartsWith(dep0, <<"/", "/">>) /\ ~StartsWith(dep0, <<"#">>)
               THEN <<"/", "/">> \o dep0 ELSE dep0
        dkey == _unify_dep(cs.self, dep)
        w1 == UnifyEffect(cs.w, cs.self, dep)
        w2 == IF dkey[1] = "#" THEN _add_system_library(w1, dkey, dep) ELSE w1
    IN  [self |-> [cs.self EXCEPT !.expanded_deps = AppendNew(@, dkey)], w |-> w2]

\* Target._add_hardcode_library(hardcode_dep_list), on cs = [self, w].
RECURSIVE _add_hardcode_library(_, _)
_add_hardcode_library(cs, hardcode_dep_list) ==
    IF hardcode_dep_list = <<>> THEN cs
    ELSE _add_hardcode_library(HardcodeOne(cs, Head(hardcode_dep_list)),
                               Tail(hardcode_dep_list))

\* A kind injects its hardcoded libraries into object i.
AddHardcodeLibrary(i, hardcode_dep_list) ==
    /\ objs[i].type # "system_library"
    /\ \A k \in 1..Len(hardcode_dep_list) : HasChar(hardcode_dep_list[k], ":")
                                            \/ StartsWith(hardcode_dep_list[k], <<"#">>)
    /\ \E cs \in {_add_hardcode_library([self |-> objs[i], w |-> World], hardcode_dep_list)} :
       \E w \in {Store(cs.w, i, cs.self)} :
           Commit(w, Ret("hardcode", i, <<>>))

\* Raw dependency texts: four spellings that reach a:u from directory a,
\* a relative form, and two system libraries.
Dep_u == <<":", "u">>
Dep_a_u == <<"/", "/", "a", ":", "u">>
Dep_a_slash_u == <<"/", "/", "a", "/", ":", "u">>
Dep_rel == <<".", "/", "b", ":", "t">>
Dep_sys == <<"#", "m">>
Dep_sys_colon == <<"#", "m", ":", "n">>

DepLists == {<<>>, <<Dep_sys, Dep_u>>, <<Dep_rel, Dep_a_u, Dep_u>>}
VisibilityLists == {Some(<<PUBLIC>>), Some(<<Dep_sys, Dep_u>>)}

\* The LOCATION_RE matches of some attribute strings.
Type_jar == Some(<<" ", "j", "a", "r">>)
MatchLists ==
    { << <<Dep_a_u, None>>, <<Dep_a_slash_u, Type_jar>> >>,
      << <<Dep_sys_colon, None>>, <<Dep_u, Type_jar>> >> }
HardcodeLists == {<< <<"a", ":", "u">>, Dep_sys >>}

DeclareWithDeps ==
    \E path \in Paths, name \in {<<"t">>}, deps \in DepLists, visibility \in VisibilityLists :
        Construct(path, name, "library", <<>>, deps, visibility, FALSE, EmptyDict)

Resolve == \E i \in 1..Len(objs), matches \in MatchLists : ResolveLocations(i, matches)

Inject == \E i \in 1..Len(objs), l \in HardcodeLists : AddHardcodeLibrary(i, l)

NextDeps == DeclareWithDeps \/ Resolve \/ Inject

\* The evaluation of BUILD files whose targets declare deps and visibility,
\* followed by the kinds' location references and hardcoded libraries.
InitDeps == InitIdle /\ pure_in = <<>> /\ pure_out = <<>>

SpecDeps == InitDeps /\ [][NextDeps]_vars

\* -------------------------------------------- dependency resolution claims
\* How often x occurs in seq.
Occurrences(seq, x) == Cardinality({k \in 1..Len(seq) : seq[k] = x})

\* a is an initial segment of b.
IsPrefix(a, b) == Len(a) <= Len(b) /\ SubSeq(b, 1, Len(a)) = a

\* C7: however often location references to one dependency K are resolved,
\* in one attribute string or in several and under any spelling of K, every
\* resolution leaves exactly one occurrence of K's canonical key in deps and
\* exactly one in expanded_deps, and the keys that were in deps before keep
\* their places.
C7_LocationKeyOnceOrderKept ==
    [][/\ \A i \in 1..Len(objs) : IsPrefix(objs[i].deps, objs'[i].deps)
       /\ ret'.op = "location" =>
              \A k \in 1..Len(ret'.value) :
                  /\ Occurrences(objs'[ret'.obj].deps, ret'.value[k][2]) = 1
                  /\ Occurrences(objs'[ret'.obj].expanded_deps, ret'.value[k][2]) = 1]_vars

\* C7's case: one attribute string referred to a:u under two spellings, on
\* a target that had declared a:u after another dependency, and a:u still
\* stands once, behind that dependency.
C7_Witness ==
    /\ ret.op = "location"
    /\ Len(ret.value) = 2
    /\ ret.value[1][1] # ret.value[2][1]
    /\ ret.value[1][2] = ret.value[2][2]
    /\ Len(objs[ret.obj].deps) >= 2
    /\ objs[ret.obj].deps[1] # ret.value[1][2]
    /\ Occurrences(objs[ret.obj].deps, ret.value[1][2]) = 1
    /\ Occurrences(objs[ret.obj].expanded_deps, ret.value[1][2]) = 1

\* Every key some target holds in deps, expanded_deps or visibility.
ResolvedKeys ==
    UNION {{objs[i].deps[k] : k \in 1..Len(objs[i].deps)}
           \cup {objs[i].expanded_deps[k] : k \in 1..Len(objs[i].expanded_deps)}
           \cup {objs[i].visibility.keys[k] : k \in 1..Len(objs[i].visibility.keys)}
           : i \in 1..Len(objs)}

\* C8: resolving '#name' yields the key '#:name', and however often and by
\* whatever route '#name' forms were resolved, the registry holds exactly
\* one System Library under each such key, registered exactly once.
C8_SystemLibraryRegisteredOnce ==
    /\ \A key \in ResolvedKeys :
           key[1] = "#" =>
               /\ Has(target_database, key)
               /\ objs[target_database[key]].type = "system_library"
               /\ objs[target_database[key]].key = key
               /\ Occurrences(registered, key) = 1
    /\ ret.op = "location" =>
           \A k \in 1..Len(ret.value) :
               ret.value[k][1][1] = "#" =>
                   ret.value[k][2] = <<"#", ":">> \o Tail(ret.value[k][1])

\* C8's case: #:m is held by two targets and reached through a declared
\* dep, a visibility entry and a hardcoded library, and a location
\* reference has just resolved a second '#' name.
C8_Witness ==
    /\ ret.op = "location"
    /\ \E k \in 1..Len(ret.value) : ret.value[k][1][1] = "#"
    /\ \E i, j \in 1..Len(objs) :
           /\ i # j
           /\ InSeq(<<"#", ":", "m">>, objs[i].deps)
           /\ InSeq(<<"#", ":", "m">>, objs[j].visibility.keys)
           /\ InSeq(<<"#", ":", "m">>, objs[j].expanded_deps)
           /\ ~InSeq(<<"#", ":", "m">>, objs[j].deps)
    /\ Occurrences(registered, <<"#", ":", "m">>) = 1

\* ----------------------------------------------- build-statement emission
\* blade.get_build_dir()
BuildDir == <<"o">>

\* Target._target_file_path(file_name)
_target_file_path(self, file_name) ==
    Normpath(PathJoin(PathJoin(BuildDir, self.path), file_name))

\* Target._write_rule(rule): one more record in the buffer. A record is
\* <<kind, outs, rule or name, ins or value>>.
_write_rule(self, rule) == [self EXCEPT !.build_rules = Some(Append(@[1], rule))]

\* _remove_on_clean adding only the paths the list does not hold yet.
RECURSIVE _remove_on_clean_Distinct(_, _)
_remove_on_clean_Distinct(self, paths) ==
    IF paths = <<>> THEN self
    ELSE _remove_on_clean_Distinct(
             [self EXCEPT !.clean_list = AppendNew(@, Head(paths))], Tail(paths))

\* Target._remove_on_clean(*paths)
_remove_on_clean(self, paths) == [self EXCEPT !.clean_list = @ \o paths]

\* The variable lines of ninja_build: '  name = v', or '  name =' for an
\* empty v. `variables` lists the dict's (name, value) items in order.
RECURSIVE WriteVariables(_, _)
WriteVariables(self, variables) ==
    IF variables = <<>> THEN self
    ELSE WriteVariables(
             _write_rule(self, <<"var", <<>>, Head(variables)[1], Head(variables)[2]>>),
             Tail(variables))

\* Target.ninja_build(rule, outputs, inputs, implicit_deps, order_only_deps,
\* variables, implicit_outputs, clean); the path-or-list arguments are given
\* as lists and `clean` is None or a list.
ninja_build(self, rule, outputs, inputs, implicit_deps, order_only_deps, variables, implicit_outputs, clean) ==
    LET outs == outputs \o (IF implicit_outputs # <<>>
                            THEN << <<"|">> >> \o implicit_outputs ELSE <<>>)
        ins == inputs
               \o (IF implicit_deps # <<>> THEN << <<"|">> >> \o implicit_deps ELSE <<>>)
               \o (IF order_only_deps # <<>>
                   THEN << <<"|", "|">> >> \o order_only_deps ELSE <<>>)
        s1 == _write_rule(self, <<"build", outs, rule, ins>>)
        cl == IF clean = None THEN outputs \o implicit_outputs ELSE clean[1]
        s2 == IF cl # <<>> THEN _remove_on_clean(s1, cl) ELSE s1
        s3 == WriteVariables(s2, variables)
    IN  _write_rule(s3, <<"blank", <<>>, <<>>, <<>>>>)

\* Target._add_target_file(label, path)
_add_target_file(self, label, path) ==
    [self EXCEPT !.targets = Put(@, label, path),
                 !.default_target = IF @ = <<>> THEN path ELSE @]

\* The buffer test of get_rules read as a truth test: an empty buffer counts
\* as no buffer.
NeedsRules_Truthy(self) == self.build_rules = None \/ self.build_rules = Some(<<>>)

\* The test of get_rules: `self.__build_rules is None`.
NeedsRules(self) == self.build_rules = None

\* get_rules() on object i of the objects O, with the kind's ninja_rules():
\* the result is the objects afterwards and whether an exception came out.
\*   system_library  SystemLibrary.ninja_rules: pass
\*   abstract        Target.ninja_rules: raise NotImplementedError
\*   library         a concrete kind: it asks every registered dependency
\*                   for its default artifact (which generates that
\*                   dependency's rules), emits one build statement for its
\*                   archive and records the archive as its artifact.
RECURSIVE get_rules(_, _)
RECURSIVE DepFiles(_, _, _)
DepFiles(res, dkeys, files) ==
    IF dkeys = <<>> \/ res.raised THEN [objs |-> res.objs, raised |-> res.raised, files |-> files]
    ELSE IF ~Has(target_database, Head(dkeys)) THEN DepFiles(res, Tail(dkeys), files)
    ELSE LET d == target_database[Head(dkeys)]
             r == get_rules(res.objs, d)
             f == r.objs[d].default_target
         IN  DepFiles(r, Tail(dkeys), IF f = <<>> THEN files ELSE Append(files, f))

LibraryRules(O, i) ==
    LET r == DepFiles([objs |-> O, raised |-> FALSE], O[i].deps, <<>>)
        self == r.objs[i]
        out == _target_file_path(self, self.name \o <<".", "a">>)
        built == ninja_build(self, <<"a", "r">>, <<out>>, self.srcs, r.files, <<>>,
                             << <<"cflags", <<"-", "O">>>>, <<"ldflags", <<>>>> >>,
                             <<>>, None)
    IN  IF r.raised THEN [objs |-> r.objs, raised |-> TRUE]
        ELSE [objs |-> [r.objs EXCEPT ![i] = _add_target_file(built, "a", out)],
              raised |-> FALSE]

ninja_rules(O, i) ==
    IF O[i].type = "system_library" THEN [objs |-> O, raised |-> FALSE]
    ELSE IF O[i].type = "abstract" THEN [objs |-> O, raised |-> TRUE]
    ELSE LibraryRules(O, i)

get_rules(O, i) ==
    IF NeedsRules(O[i])
    THEN ninja_rules([O EXCEPT ![i].build_rules = Some(<<>>),
                               ![i].ninja_rules_runs = @ + 1], i)
    ELSE [objs |-> O, raised |-> FALSE]

\* The objects after a call on object i returned: the first buffer a call
\* returned is remembered.
Returned(O, i) ==
    [O EXCEPT ![i].first_rules = IF @ = None THEN O[i].build_rules ELSE @]

\* What a rule query reports: whether it raised, the value it returned and
\* the buffer get_rules() handed back.
RulesRet(op, i, r, value) ==
    Ret(op, i, [raised |-> r.raised, value |-> value,
                rules |-> IF r.raised THEN None ELSE r.objs[i].build_rules])

\* The state after a rule query on object i ended as r.
CommitRules(op, i, r, value) ==
    /\ objs' = IF r.raised THEN r.objs ELSE Returned(r.objs, i)
    /\ ret' = RulesRet(op, i, r, value)
    /\ UNCHANGED <<target_database, registered, src_target_map, console_log, config,
                   pure_in, pure_out>>

\* A caller asks object i for its rules.
CallGetRules(i) ==
    \E r \in {get_rules(objs, i)} : CommitRules("get_rules", i, r, <<>>)

\* Target._get_target_file(label)
CallGetTargetFile(i, label) ==
    \E r \in {get_rules(objs, i)} :
        CommitRules("_get_target_file", i, r,
                    IF label # "" THEN (IF Has(r.objs[i].targets, label)
                                        THEN r.objs[i].targets[label] ELSE <<>>)
                    ELSE r.objs[i].default_target)

\* Target._get_target_files(): the distinct artifact paths (sorted() of a
\* set, kept here as the set).
CallGetTargetFiles(i) ==
    \E r \in {get_rules(objs, i)} :
        CommitRules("_get_target_files", i, r,
                    {r.objs[i].targets[l] : l \in DOMAIN r.objs[i].targets})

\* Declarations whose dependencies cannot form a cycle: t may depend on u
\* and on a system library, u on the system library only.
DeclareKind ==
    /\ Declared < MaxTargets
    /\ \/ \E type \in {"library", "abstract"}, deps \in {<<>>, <<Dep_sys>>} :
           Construct(Dir_a, <<"u">>, type, << <<"x">> >>, deps, None, FALSE, EmptyDict)
       \/ \E path \in Paths, deps \in {<<Dep_a_u>>, <<Dep_sys, Dep_a_u>>} :
           Construct(path, <<"t">>, "library", << <<"y">> >>, deps, None, FALSE, EmptyDict)

QueryRules ==
    \E i \in 1..Len(objs) :
        \/ CallGetRules(i)
        \/ \E label \in {"", "a", "so"} : CallGetTargetFile(i, label)
        \/ CallGetTargetFiles(i)

NextRules == DeclareKind \/ QueryRules

\* Declarations followed by rule generation and artifact lookups.
SpecRules == InitDeps /\ [][NextRules]_vars

\* The build statements of a buffer.
BuildRecords(rules) == {k \in 1..Len(rules) : rules[k][1] = "build"}

\* C4: whatever calls of get_rules(), _get_target_file() and
\* _get_target_files() were made, ninja_rules() has run at most once on
\* every target, every call that returned handed back the record sequence
\* the first call handed back, and that sequence holds no build statement
\* twice.
C4_RulesGeneratedOnce ==
    /\ \A i \in 1..Len(objs) :
           /\ objs[i].ninja_rules_runs <= 1
           /\ objs[i].first_rules # None => objs[i].build_rules = objs[i].first_rules
           /\ objs[i].build_rules # None =>
                  \A k, l \in BuildRecords(objs[i].build_rules[1]) :
                      objs[i].build_rules[1][k] = objs[i].build_rules[1][l] => k = l
    /\ (ret.op \in {"get_rules", "_get_target_file", "_get_target_files"}
            /\ ~ret.value.raised)
           => ret.value.rules = objs[ret.obj].first_rules

\* C4's case: a target whose rules an artifact lookup of a dependent had
\* generated was then asked for its rules itself, and got the same
\* non-empty sequence back.
C4_Witness ==
    /\ ret.op = "get_rules"
    /\ ~ret.value.raised
    /\ ret.value.rules # Some(<<>>)
    /\ objs[ret.obj].ninja_rules_runs = 1
    /\ \E j \in 1..Len(objs) :
           /\ InSeq(objs[ret.obj].key, objs[j].deps)
           /\ objs[j].first_rules # None
           /\ objs[j].ninja_rules_runs = 1

\* --------------------------------------------------------- the rule hash
\* The keys an entropy dict can hold, in sorted() order.
EntropyKeys ==
    <<"blade_revision", "config", "data", "deps", "name", "srcs", "test_timeout", "type">>

\* sorted(entropy.items()): the (key, value) pairs by ascending key.
RECURSIVE SortedItems(_, _)
SortedItems(entropy, keys) ==
    IF keys = <<>> THEN <<>>
    ELSE (IF Has(entropy, Head(keys)) THEN << <<Head(keys), entropy[Head(keys)]>> >> ELSE <<>>)
         \o SortedItems(entropy, Tail(keys))

\* md5sum(entropy_str): the digest is taken to be injective, so it is kept
\* as the text it digests.
md5sum(entropy_str) == <<"md5", entropy_str>>

\* entropy.update(more)
Update(entropy, more) ==
    [k \in DOMAIN entropy \cup DOMAIN more |-> IF Has(more, k) THEN more[k] ELSE entropy[k]]

\* _rule_hash_entropy returning the transient data next to the attributes.
_rule_hash_entropy_WithData(self) ==
    IF self.data = EmptyDict THEN self.attr ELSE Put(self.attr, "data", self.data)

\* Target._rule_hash_entropy(): the default, the attr member.
_rule_hash_entropy(self) == self.attr

\* The entropy dict rule_hash() starts from.
BaseEntropy(self) ==
    [blade_revision |-> config.revision, config |-> config.digest,
     type |-> self.type, name |-> self.name, srcs |-> self.srcs]

\* The digest rule_hash() computes for self once its dependencies' hashes
\* are known.
ComputeHash(self, dep_hashes) ==
    LET entropy == Update(Put(BaseEntropy(self), "deps", dep_hashes),
                          _rule_hash_entropy(self))
    IN  md5sum(SortedItems(entropy, EntropyKeys))

\* rule_hash() on object i of the objects O: the objects afterwards, with
\* the memo of i and of every dependency that had none filled in. Every
\* key in deps is taken to be registered and the graph to be acyclic (the
\* lookup raises KeyError and the recursion never ends otherwise).
RECURSIVE rule_hash(_, _)
RECURSIVE DepHashes(_, _, _)
DepHashes(O, dkeys, hashes) ==
    IF dkeys = <<>> THEN [objs |-> O, hashes |-> hashes]
    ELSE LET d == target_database[Head(dkeys)]
             O1 == rule_hash(O, d)
         IN  DepHashes(O1, Tail(dkeys), Append(hashes, O1[d].rule_hash[1]))

\* rule_hash without the memo test: every call computes anew.
rule_hash_Recompute(O, i) ==
    LET r == DepHashes(O, O[i].deps, <<>>)
    IN  [r.objs EXCEPT ![i].rule_hash = Some(ComputeHash(r.objs[i], r.hashes))]

rule_hash(O, i) ==
    IF O[i].rule_hash = None
    THEN LET r == DepHashes(O, O[i].deps, <<>>)
         IN  [r.objs EXCEPT ![i].rule_hash = Some(ComputeHash(r.objs[i], r.hashes))]
    ELSE O

\* The registered objects that the keys in `dkeys` name.
Named(dkeys) == {target_database[dkeys[k]] : k \in {n \in 1..Len(dkeys) :
                                                     Has(target_database, dkeys[n])}}

\* The objects reachable from i along deps in at most n steps.
RECURSIVE Closure(_, _)
Closure(i, n) ==
    IF n = 0 THEN {i}
    ELSE {i} \cup UNION {Closure(j, n - 1) : j \in Named(objs[i].deps)}

\* rule_hash() can be called on i: every key in the deps of i and of what i
\* reaches is registered (the graphs declared here have no cycle).
Hashable(i) ==
    \A j \in Closure(i, Len(objs)) :
        \A k \in 1..Len(objs[j].deps) : Has(target_database, objs[j].deps[k])

\* A caller asks object i for its rule hash.
CallRuleHash(i) ==
    /\ Hashable(i)
    /\ \E O \in {rule_hash(objs, i)} :
           /\ objs' = O
           /\ ret' = Ret("rule_hash", i, O[i].rule_hash[1])
    /\ UNCHANGED <<target_database, registered, src_target_map, console_log, config,
                   pure_in, pure_out>>

\* Rule generation keeps working state in the data dict of object i.
SetData(i, k, v) ==
    /\ objs' = [objs EXCEPT ![i].data = Put(@, k, v)]
    /\ UNCHANGED <<target_database, registered, src_target_map, console_log, config,
                   ret, pure_in, pure_out>>

\* The declarations of three BUILD targets: the leaf a/b:u, a:u which may
\* depend on it, and a:t which may depend on a:u. A kind may declare an
\* attribute under a key the entropy dict already uses.
Name_t == <<"t">>
Name_u == <<"u">>
Dep_ab_u == <<"/", "/", "a", "/", "b", ":", "u">>
Srcs_x == << <<"x">> >>
AttrSrcs == Put(EmptyDict, "srcs", <<>>)
AttrDeps == Put(EmptyDict, "deps", <<>>)

DeclareForHash ==
    \/ \E attr \in {EmptyDict, AttrSrcs} :
           Construct(Dir_ab, Name_u, "library", Srcs_x, <<>>, None, FALSE, attr)
    \/ \E attr \in {EmptyDict, AttrDeps}, deps \in {<<>>, <<Dep_ab_u>>} :
           Construct(Dir_a, Name_u, "library", Srcs_x, deps, None, FALSE, attr)
    \/ \E attr \in {EmptyDict, AttrDeps}, deps \in {<<>>, <<Dep_a_u>>} :
           Construct(Dir_a, Name_t, "library", Srcs_x, deps, None, FALSE, attr)

HashTarget == \E i \in 1..Len(objs) : CallRuleHash(i)

Scribble == \E i \in 1..Len(objs) : objs[i].name = Name_u /\ SetData(i, "flags", <<"-", "g">>)

InjectLeaf == \E i \in 1..Len(objs) :
                  objs[i].name = Name_t /\ AddHardcodeLibrary(i, << <<"a", "/", "b", ":", "u">> >>)

NextHash == DeclareForHash \/ HashTarget \/ Scribble \/ InjectLeaf

\* Declarations, hardcoded-library injection, writes to data and rule_hash()
\* calls, in any order.
SpecHash == InitDeps /\ [][NextHash]_vars

\* -------------------------------------------------------- rule hash claims
\* The objects with every memo cleared, as a new process starts with them.
Cleared(O) == [k \in 1..Len(O) |-> [O[k] EXCEPT !.rule_hash = None]]

\* The digest rule_hash() returns for i when it is computed afresh on O.
FreshHash(O, i) == rule_hash(Cleared(O), i)[i].rule_hash[1]

\* The memoized hashes of the direct dependencies of i, in deps order.
DepHashList(i) ==
    [k \in 1..Len(objs[i].deps) |-> objs[target_database[objs[i].deps[k]]].rule_hash]

\* i and j agree in type, name, srcs, their direct dependencies' hashes and
\* their kind-specific entropy (configuration digest and tool revision are
\* the process's).
SameHashInputs(i, j) ==
    /\ objs[i].type = objs[j].type
    /\ objs[i].name = objs[j].name
    /\ objs[i].srcs = objs[j].srcs
    /\ DepHashList(i) = DepHashList(j)
    /\ objs[i].attr = objs[j].attr

Hashed == {i \in 1..Len(objs) : objs[i].rule_hash # None}

\* C5: two targets that agree in type, name, srcs, direct dependencies'
\* hashes, configuration digest, tool revision and kind-specific entropy
\* have the same rule hash, whatever else (path, data, expanded_deps)
\* tells them apart; and what was written to data since does not change
\* the hash a fresh computation gives.
C5_HashDeterminedByInputs ==
    /\ \A i, j \in Hashed : SameHashInputs(i, j) => objs[i].rule_hash = objs[j].rule_hash
    /\ \A i \in Hashed : objs[i].rule_hash[1] = FreshHash(objs, i)

\* C5's case: two hashed targets agree in every hash input, differ in
\* their data, and have one hash.
C5_Witness ==
    \E i, j \in Hashed :
        /\ SameHashInputs(i, j)
        /\ objs[i].data # objs[j].data
        /\ objs[i].path # objs[j].path
        /\ objs[i].rule_hash = objs[j].rule_hash

\* The other evaluation: the same objects, but entry k of the srcs of
\* object l reads s.
OtherEvaluation(l, k, s) == [objs EXCEPT ![l].srcs[k] = s]

SrcNames == {<<"x">>, <<"y">>}

\* The objects reachable from i along expanded_deps in at most n steps.
RECURSIVE ExpandedClosure(_, _)
ExpandedClosure(i, n) ==
    IF n = 0 THEN {i}
    ELSE {i} \cup UNION {ExpandedClosure(j, n - 1) : j \in Named(objs[i].expanded_deps)}

\* No kind has declared an attribute under a key rule_hash() itself uses.
PlainEntropy ==
    \A i \in 1..Len(objs) : ~Has(objs[i].attr, "srcs") /\ ~Has(objs[i].attr, "deps")

\* C6 as stated, read on the evaluations where the kinds' entropy is plain:
\* when two evaluations differ in one declared source path of one target l,
\* rule_hash() differs for l and for every target that depends on l
\* directly or transitively (expanded_deps holds every dependency, the
\* hardcoded libraries included).
C6_HashChangesForEveryDependent ==
    PlainEntropy =>
        \A l \in 1..Len(objs) : \A k \in 1..Len(objs[l].srcs) :
            \A s \in SrcNames \ {objs[l].srcs[k]} :
                \A i \in 1..Len(objs) :
                    (Hashable(i) /\ l \in ExpandedClosure(i, Len(objs)))
                        => FreshHash(objs, i) # FreshHash(OtherEvaluation(l, k, s), i)

\* i reaches l along deps in at most n steps through targets whose
\* kind-specific entropy leaves the `deps` entry alone, and the entropy of l
\* leaves its `srcs` entry alone.
RECURSIVE Carries(_, _, _)
Carries(i, l, n) ==
    IF i = l THEN ~Has(_rule_hash_entropy(objs[l]), "srcs")
    ELSE /\ n > 0
         /\ ~Has(_rule_hash_entropy(objs[i]), "deps")
         /\ \E j \in Named(objs[i].deps) : Carries(j, l, n - 1)

\* The propagation rule_hash() does give: when two evaluations differ in one
\* declared source path of one target l, a rule_hash() computed afresh
\* differs for l and for every target that reaches l along a chain of `deps`
\* keys, provided the kind-specific entropy of l has no `srcs` key and that
\* of the targets on the chain no `deps` key.
HashChangesAlongDeps ==
    \A l \in 1..Len(objs) : \A k \in 1..Len(objs[l].srcs) :
        \A s \in SrcNames \ {objs[l].srcs[k]} :
            \A i \in 1..Len(objs) :
                (Hashable(i) /\ Carries(i, l, Len(objs)))
                    => FreshHash(objs, i) # FreshHash(OtherEvaluation(l, k, s), i)

\* A chain it applies to: a:t depends on a:u, a:u on the leaf a/b:u, none of
\* them overrides an entropy key, and a:t has been hashed.
HashedChain ==
    \E i, j, l \in 1..Len(objs) :
        /\ i # j /\ j # l /\ i # l
        /\ Named(objs[i].deps) = {j}
        /\ Named(objs[j].deps) = {l}
        /\ Hashable(i)
        /\ Carries(i, l, Len(objs))
        /\ objs[i].rule_hash # None

\* ------------------------------------------------------------ clean list
\* Most ninja_build calls one run makes.
MaxEmits == 3

\* The build statements written so far, over all targets.
Emitted ==
    Cardinality(UNION {{<<i, k>> : k \in IF objs[i].build_rules = None THEN {}
                                         ELSE BuildRecords(objs[i].build_rules[1])} :
                       i \in 1..Len(objs)})

\* Target.get_clean_list()
get_clean_list(self) == self.clean_list

\* Output paths and the argument tuples <<outputs, implicit_outputs, clean,
\* variables>> of the ninja_build calls made here: the default clean list
\* with and without implicit outputs, an empty override and an override
\* naming another path.
Out_o == <<"o", "/", "a", "/", "t", ".", "o">>
Out_d == <<"o", "/", "a", "/", "t", ".", "d">>
Out_dir == <<"o", "/", "a", "/", "g">>
EmitArgs ==
    { << <<Out_o>>, <<>>, None, <<>> >>,
      << <<Out_o>>, <<Out_d>>, None, << <<"cflags", <<>>>> >> >>,
      << <<Out_o, Out_d>>, <<>>, Some(<<>>), <<>> >>,
      << <<Out_o>>, <<Out_d>>, Some(<<Out_dir>>), <<>> >> }

\* The kind's ninja_rules() calls ninja_build on object i. Without a rule
\* buffer (get_rules() has not begun) the first _write_rule raises
\* AttributeError before anything is registered.
CallNinjaBuild(i, a) ==
    LET raised == objs[i].build_rules = None
        value == [raised |-> raised, outputs |-> a[1], implicit_outputs |-> a[2],
                  clean |-> a[3]]
    IN  /\ objs' = IF raised THEN objs
                   ELSE [objs EXCEPT ![i] = ninja_build(@, <<"c", "c">>, a[1], << <<"x">> >>,
                                                        <<>>, <<>>, a[4], a[2], a[3])]
        /\ ret' = Ret("ninja_build", i, value)
        /\ UNCHANGED <<target_database, registered, src_target_map, console_log, config,
                       pure_in, pure_out>>

\* get_rules() on object i up to its call of ninja_rules(): the buffer is
\* there, and the kind's ninja_build calls follow one by one.
BeginRules(i) ==
    /\ NeedsRules(objs[i])
    /\ objs' = [objs EXCEPT ![i].build_rules = Some(<<>>), ![i].ninja_rules_runs = @ + 1]
    /\ ret' = Ret("begin_rules", i, <<>>)
    /\ UNCHANGED <<target_database, registered, src_target_map, console_log, config,
                   pure_in, pure_out>>

DeclareEmitter ==
    /\ Declared < MaxTargets
    /\ \E name \in Names : Construct(Dir_a, name, "library", Srcs_x, <<>>, None, FALSE, EmptyDict)

Generate == \E i \in 1..Len(objs) : BeginRules(i)

Emit == \E i \in 1..Len(objs), a \in EmitArgs : Emitted < MaxEmits /\ CallNinjaBuild(i, a)

NextEmit == DeclareEmitter \/ Generate \/ Emit

\* Declarations, the start of rule generation and ninja_build calls.
SpecEmit == InitDeps /\ [][NextEmit]_vars

\* What the claim has one call contribute to the clean list.
Contribution(call) ==
    IF call.clean # None THEN call.clean[1] ELSE call.outputs \o call.implicit_outputs

\* C11: every ninja_build call that returned appended to the clean list of
\* its target the clean override when one was given (nothing for an empty
\* one) and its outputs followed by its implicit outputs otherwise, and no
\* step of any kind removed or reordered an entry or touched the clean list
\* of another target; so get_clean_list() is the concatenation of the calls'
\* contributions in call order.
C11_CleanListIsConcatenation ==
    [][\A i \in 1..Len(objs) :
           get_clean_list(objs'[i]) =
               get_clean_list(objs[i])
                   \o (IF ret'.op = "ninja_build" /\ ret'.obj = i /\ ~ret'.value.raised
                       THEN Contribution(ret'.value) ELSE <<>>)]_vars

\* C11's case: a call with an empty clean override returned on a target
\* whose clean list holds what two earlier calls registered, one of them
\* its output and implicit output, the other its override.
C11_Witness ==
    /\ ret.op = "ninja_build"
    /\ ~ret.value.raised
    /\ ret.value.clean = Some(<<>>)
    /\ get_clean_list(objs[ret.obj]) \in {<<Out_o, Out_d, Out_dir>>, <<Out_dir, Out_o, Out_d>>}
    /\ Cardinality(BuildRecords(objs[ret.obj].build_rules[1])) = 3

\* ------------------------------------------------- rejected source paths
\* The srcs entries of `self` that _check_srcs finds invalid.
RejectedSrcs(self) == {k \in 1..Len(self.srcs) : InvalidSrc(self.srcs[k])}

\* C12: a Target.__init__ that is given a source path containing '..' or
\* starting with '/' fails: no step ends with such a target constructed and
\* registered, and the ownership map holds for that path what it held
\* before (no entry when it had none).
C12_InvalidSourceRejected ==
    [][ret'.op = "construct" =>
           LET self == objs'[ret'.obj]
           IN  \A k \in RejectedSrcs(self) :
                   LET full_src == Normpath(PathJoin(self.path, self.srcs[k]))
                   IN  /\ ~Has(target_database', self.key)
                       /\ Has(src_target_map', full_src) = Has(src_target_map, full_src)
                       /\ Has(src_target_map, full_src) =>
                              src_target_map'[full_src] = src_target_map[full_src]]_vars

\* ------------------------------------------------------ the rule-hash memo
\* A kind or a caller rewrites the public srcs list of object i.
SetSrcs(i, srcs) ==
    /\ objs[i].srcs # srcs
    /\ objs' = [objs EXCEPT ![i].srcs = srcs]
    /\ ret' = Ret("set_srcs", i, <<>>)
    /\ UNCHANGED <<target_database, registered, src_target_map, console_log, config,
                   pure_in, pure_out>>

\* A kind sets the attribute k of object i.
SetAttr(i, k, v) ==
    /\ ~Has(objs[i].attr, k)
    /\ objs' = [objs EXCEPT ![i].attr = Put(@, k, v)]
    /\ ret' = Ret("set_attr", i, <<>>)
    /\ UNCHANGED <<target_database, registered, src_target_map, console_log, config,
                   pure_in, pure_out>>

\* The leaf a/b:u and a:t, which may name the leaf in its deps.
DeclareForMemo ==
    \/ Construct(Dir_ab, Name_u, "library", Srcs_x, <<>>, None, FALSE, EmptyDict)
    \/ \E deps \in {<<>>, <<Dep_ab_u>>} :
           Construct(Dir_a, Name_t, "library", Srcs_x, deps, None, FALSE, EmptyDict)

\* a:t resolves '$(location //a/b:u)' in one of its attribute strings once
\* the leaf is registered.
ReferLeaf ==
    \E i \in 1..Len(objs) :
        /\ objs[i].name = Name_t
        /\ Has(target_database, <<"a", "/", "b", ":", "u">>)
        /\ ResolveLocations(i, << <<Dep_ab_u, None>> >>)

Touch ==
    \E i \in 1..Len(objs) :
        \/ \E s \in SrcNames : SetSrcs(i, <<s>>)
        \/ SetAttr(i, "warning", <<"n", "o">>)

NextMemo == DeclareForMemo \/ HashTarget \/ ReferLeaf \/ Touch

\* Declarations, rule_hash() calls, location references resolved late and
\* changes to srcs and attr, in any order.
SpecMemo == InitDeps /\ [][NextMemo]_vars

\* C13: the memo of a target only moves from None to a digest: a memo that
\* is set is never cleared or changed by any step, and a rule_hash() call
\* on a target whose memo is set returns that memo, whatever was done to
\* its deps, srcs or attr or to its dependencies since.
C13_MemoOnlySetOnce ==
    [][\A i \in 1..Len(objs) :
           objs[i].rule_hash # None =>
               /\ objs'[i].rule_hash = objs[i].rule_hash
               /\ (ret'.op = "rule_hash" /\ ret'.obj = i)
                      => ret'.value = objs[i].rule_hash[1]]_vars

\* C13's case: rule_hash() returned on a:t again after a location
\* reference had added the leaf to its deps, and the digest returned is the
\* one of the first call, computed without that dependency: a fresh
\* computation gives another one.
C13_Witness ==
    /\ ret.op = "rule_hash"
    /\ objs[ret.obj].name = Name_t
    /\ InSeq(<<"a", "/", "b", ":", "u">>, objs[ret.obj].deps)
    /\ objs[ret.obj].srcs = Srcs_x
    /\ objs[ret.obj].attr = Put(EmptyDict, "test_timeout", config.test_timeout)
    /\ ret.value = ComputeHash(objs[ret.obj], <<>>)
    /\ ret.value # FreshHash(objs, ret.obj)
====
